---- MODULE Spec2Model ----
(***************************************************************************)
(* A model of final_app.py, the sales dashboard script.                    *)
(*                                                                         *)
(* The script is executed top to bottom once per page run: run_app loads   *)
(* the table, builds the sidebar and filters, then renders the main page.  *)
(* A change of a sidebar selection makes the page run again, which         *)
(* executes the script (and so run_app) again from its first line; the     *)
(* selections survive the rerun as widget state, the script's locals do    *)
(* not.                                                                    *)
(*                                                                         *)
(* Numbers are fixed point: a price is a whole number of hundredths, a     *)
(* rating a whole number of tenths.  A data frame is the sequence of its   *)
(* rows.  A missing cell of a text column is NA, of a numeric column NaN,  *)
(* of the time column NaT.                                                 *)
(***************************************************************************)
EXTENDS Integers, Sequences, FiniteSets, TLC

\* ---------------------------------------------------------------- bounds

\* The longest spreadsheet the model reads.
MaxRows == 3
\* The number of page runs (the first run and the reruns after it).
MaxPasses == 3

\* ----------------------------------------------------------- cell values

NA == "NA"
NaN == -1
NaT == <<>>

\* Hundredths in one unit of price, tenths in one unit of rating.
Cents == 100
Tenths == 10

Row(o, t, c, ct, g, p, price, rating) ==
    [order |-> o, time |-> t, city |-> c, customer_type |-> ct, gender |-> g,
     product |-> p, price |-> price, rating |-> rating]

\* The data of the except branch: six orders, prices in whole units.
FallbackData ==
    << Row(1001, << 9, 30, 0>>, "Shanghai",  "member", "F", "electronics", 299 * Cents, 45),
       Row(1002, <<10, 15, 0>>, "Beijing",   "normal", "M", "clothing",    199 * Cents, 38),
       Row(1003, <<11, 20, 0>>, "Shanghai",  "member", "M", "food",         89 * Cents, 42),
       Row(1004, <<14, 40, 0>>, "Guangzhou", "normal", "F", "electronics", 399 * Cents, 48),
       Row(1005, <<15, 10, 0>>, "Beijing",   "member", "F", "clothing",    259 * Cents, 39),
       Row(1006, <<16, 30, 0>>, "Guangzhou", "normal", "M", "food",        129 * Cents, 41) >>

\* The order of the product names as strings, which is the order groupby
\* sorts its keys in.  The names stand for the source's: clothing U+670D..,
\* electronics U+7535.., food U+98DF...
StrRank(s) ==
    CASE s = "clothing"    -> 1
      [] s = "electronics" -> 2
      [] s = "food"        -> 3

\* ------------------------------------------------------ spreadsheet rows

\* Rows a spreadsheet may hold: cells present and missing, fractional
\* prices, equal and unequal prices, hours out of row order.
SheetRows ==
    { Row(1, <<10, 15,  0>>, "Beijing",  "member", "F", "food",        150, 45),
      Row(2, << 9, 30,  0>>, "Shanghai", "normal", "M", "clothing",    150, 38),
      Row(3, <<10, 45, 30>>, NA,         "member", "M", "food",        275, 42),
      Row(4, NaT,            "Beijing",  NA,       "F", NA,            100, 50),
      Row(5, <<23, 59, 59>>, "Shanghai", "member", NA,  "clothing",    125, 40),
      Row(6, << 0,  5,  0>>, "Beijing",  "normal", "F", "electronics", 300, 31) }

\* The sheets of at most MaxRows rows, order numbers unique.
Sheets ==
    UNION { { s \in [1..n -> SheetRows] : \A i, j \in 1..n : i # j => s[i] # s[j] }
            : n \in 0..MaxRows }

\* What open() finds: a sheet, or no file.
Absent == [exists |-> FALSE, rows |-> << >>]
Files == {Absent} \cup { [exists |-> TRUE, rows |-> s] : s \in Sheets }

VARIABLES
    xlsx,                  \* the spreadsheet on disk, or Absent
    pc,                    \* the line run_app has reached
    widget,                \* the sidebar's selections kept between page runs
    sale_df,               \* run_app's sale_df
    warning,               \* st.warning was called in this run
    city, customer_type, gender,   \* add_sidebar_func's selections
    df_selection,          \* the filtered frame
    metrics,               \* the numbers shown in the three columns
    sales_by_hour,         \* the frame behind the hour chart
    sales_by_product_line, \* the frame behind the product chart
    loads,                 \* calls of get_dataframe_from_excel so far
    passes,                \* filter passes so far
    loaded0                \* the table as it was right after the first load

vars == << xlsx, pc, widget, sale_df, warning, city, customer_type, gender,
           df_selection, metrics, sales_by_hour, sales_by_product_line,
           loads, passes, loaded0 >>

\* ------------------------------------------------------------ the loader

\* pd.to_datetime(..., format="%H:%M:%S").dt.hour: the hour field of a parsed
\* time, NaN for a missing one.
HourOf(t) == IF t = NaT THEN NaN ELSE t[1]

\* df["hour"] = ...: every row gains its hour.
WithHour(r) ==
    [order |-> r.order, time |-> r.time, city |-> r.city,
     customer_type |-> r.customer_type, gender |-> r.gender,
     product |-> r.product, price |-> r.price, rating |-> r.rating,
     hour |-> HourOf(r.time)]

\* read_excel, or the except branch's frame when the file is not found.
ReadOrFallback(file) == IF file.exists THEN file.rows ELSE FallbackData

\* get_dataframe_from_excel's return value.
LoadFrame(file) ==
    LET raw == ReadOrFallback(file)
    IN  [i \in 1..Len(raw) |-> WithHour(raw[i])]

\* ------------------------------------------------------------ the sidebar

\* df[col].unique(): the distinct values of a column, a missing one included.
UniqueCity(df) == { df[i].city : i \in DOMAIN df }
UniqueCustomerType(df) == { df[i].customer_type : i \in DOMAIN df }
UniqueGender(df) == { df[i].gender : i \in DOMAIN df }

\* st.multiselect: the default on the first run, the kept selection after.
Multiselect(kept, default) == IF widget.set THEN kept ELSE default

\* isin as elementwise ==, under which a missing cell equals nothing.
IsInElementwise(v, list) == v # NA /\ v \in list

\* Series.isin, which query's "column == @list" is evaluated as: a missing
\* cell is a member of a list that holds the missing value.
IsIn(v, list) == v \in list

\* The condition with | between the columns in place of &.
RowMatchesAnyColumn(r, c, ct, g) ==
    IsIn(r.city, c) \/ IsIn(r.customer_type, ct) \/ IsIn(r.gender, g)

\* The query's condition on one row.
RowMatches(r, c, ct, g) ==
    IsIn(r.city, c) /\ IsIn(r.customer_type, ct) /\ IsIn(r.gender, g)

\* df.query(...): the matching rows, in the frame's order, as a new frame.
Query(df, c, ct, g) == SelectSeq(df, LAMBDA r : RowMatches(r, c, ct, g))

\* query(..., inplace=True): the frame itself is cut down to the matches.
FrameAfterQueryInplace(df, c, ct, g) == Query(df, c, ct, g)

\* The frame query was called on, after the call.
FrameAfterQuery(df, c, ct, g) == df

\* --------------------------------------------------------- the aggregator

RECURSIVE SumPrice(_)
\* df[price].sum(): 0 for an empty frame.
SumPrice(df) == IF df = << >> THEN 0 ELSE Head(df).price + SumPrice(Tail(df))

RECURSIVE SumRating(_)
SumRating(df) == IF df = << >> THEN 0 ELSE Head(df).rating + SumRating(Tail(df))

RECURSIVE Ascending(_)
\* The numbers of a set, smallest first.
Ascending(S) ==
    IF S = {} THEN << >>
    ELSE LET m == CHOOSE x \in S : \A y \in S : x <= y
         IN  << m >> \o Ascending(S \ {m})

\* groupby's keys: the values present, a missing key left out (dropna=True).
HourKeys(df) == { df[i].hour : i \in DOMAIN df } \ {NaN}
ProductKeys(df) == { df[i].product : i \in DOMAIN df } \ {NA}

RECURSIVE FirstSeen(_)
\* The values of a sequence in the order of their first occurrence.
FirstSeen(s) ==
    IF s = << >> THEN << >>
    ELSE << Head(s) >> \o FirstSeen(SelectSeq(Tail(s), LAMBDA x : x # Head(s)))

\* groupby(sort=False): the keys in the order the rows bring them.
HourKeyOrderUnsorted(df) ==
    FirstSeen(SelectSeq([i \in DOMAIN df |-> df[i].hour], LAMBDA h : h # NaN))

\* groupby's key order (sort=True): ascending.
HourKeyOrder(df) == Ascending(HourKeys(df))
ProductKeyOrder(df) ==
    LET keys  == ProductKeys(df)
        ranks == Ascending({ StrRank(k) : k \in keys })
    IN  [i \in 1..Len(ranks) |-> CHOOSE k \in keys : StrRank(k) = ranks[i]]

\* .count() in place of .sum(): the group's number of rows.
HourTotalCount(df, k) == Len(SelectSeq(df, LAMBDA r : r.hour = k))

\* One group's sum of the price column.
HourTotal(df, k) == SumPrice(SelectSeq(df, LAMBDA r : r.hour = k))
ProductTotal(df, k) == SumPrice(SelectSeq(df, LAMBDA r : r.product = k))

\* df.groupby(by=[hour])[[price]].sum().reset_index()
GroupByHour(df) ==
    LET keys == HourKeyOrder(df)
    IN  [i \in 1..Len(keys) |-> [key |-> keys[i], total |-> HourTotal(df, keys[i])]]

\* df.groupby(by=[product])[[price]].sum()
GroupByProduct(df) ==
    LET keys == ProductKeyOrder(df)
    IN  [i \in 1..Len(keys) |-> [key |-> keys[i], total |-> ProductTotal(df, keys[i])]]

\* sort_values(ascending=False).
InSortOrderDescending(a, b) == a.total >= b.total

\* The order sort_values leaves: ascending by total.
InSortOrder(a, b) == a.total <= b.total

\* .sort_values(by=price): the default sort (quicksort) is not stable, so
\* rows of equal total may come out in any order.
SortValues(g) ==
    LET n == Len(g)
    IN  { [i \in 1..n |-> g[f[i]]] :
            f \in { h \in [1..n -> 1..n] :
                      /\ \A i, j \in 1..n : i # j => h[i] # h[j]
                      /\ \A i \in 1..n - 1 : InSortOrder(g[h[i]], g[h[i + 1]]) } }

\* ------------------------------------------------------------- the summary

\* int(x) of a number of hundredths: truncation toward zero.
IntOf(x, scale) == IF x >= 0 THEN x \div scale ELSE -((-x) \div scale)

\* round(num / den) to a whole number of units, a tie to the even one.
RoundHalfEven(num, den) ==
    LET q == num \div den
        r == num % den
    IN  IF 2 * r < den THEN q
        ELSE IF 2 * r > den THEN q + 1
        ELSE IF q % 2 = 0 THEN q ELSE q + 1

\* int(df[price].sum())
TotalSales(df) == IntOf(SumPrice(df), Cents)

\* round(df[rating].mean()): to a whole rating, in tenths.
AverageRatingWhole(df) ==
    IF Len(df) = 0 THEN NaN ELSE RoundHalfEven(SumRating(df), Len(df) * Tenths) * Tenths

\* round(df[rating].mean(), 1), in tenths: NaN for an empty frame.
AverageRating(df) ==
    IF Len(df) = 0 THEN NaN ELSE RoundHalfEven(SumRating(df), Len(df))

\* Whether int(round(average_rating, 0)) raises ValueError: it does on NaN.
StarsRaise(avg) == avg = NaN

\* int(round(average_rating, 0)): the number of stars.
Stars(avg) == RoundHalfEven(avg, Tenths)

\* round(df[price].mean(), 2), in hundredths: NaN for an empty frame.
AverageSale(df) ==
    IF Len(df) = 0 THEN NaN ELSE RoundHalfEven(SumPrice(df), Len(df))

\* The numbers of the three columns.
Summarize(df) ==
    [total_sales   |-> TotalSales(df),
     average_rating |-> AverageRating(df),
     stars          |-> Stars(AverageRating(df)),
     average_sale   |-> AverageSale(df)]

NoMetrics ==
    [total_sales |-> NaN, average_rating |-> NaN, stars |-> NaN, average_sale |-> NaN]

\* main_page_demo(sale_df): the page drawn from the unfiltered frame.
PageFrameUnfiltered(sale, selection) == sale

\* The frame run_app hands to main_page_demo.
PageFrame(sale, selection) == selection

\* ----------------------------------------------------------------- run_app

Unset == [set |-> FALSE, city |-> {}, customer_type |-> {}, gender |-> {}]

Init ==
    /\ xlsx \in Files
    /\ pc = "load"
    /\ widget = Unset
    /\ sale_df = << >>
    /\ warning = FALSE
    /\ city = {} /\ customer_type = {} /\ gender = {}
    /\ df_selection = << >>
    /\ metrics = NoMetrics
    /\ sales_by_hour = << >>
    /\ sales_by_product_line = << >>
    /\ loads = 0
    /\ passes = 0
    /\ loaded0 = << >>

\* sale_df = get_dataframe_from_excel()
Load ==
    /\ pc = "load"
    /\ sale_df' = LoadFrame(xlsx)
    /\ warning' = ~xlsx.exists
    /\ loads' = loads + 1
    /\ loaded0' = IF loads = 0 THEN LoadFrame(xlsx) ELSE loaded0
    /\ pc' = "sidebar"
    /\ UNCHANGED << xlsx, widget, city, customer_type, gender, df_selection,
                    metrics, sales_by_hour, sales_by_product_line, passes >>

\* df_selection = add_sidebar_func(sale_df)
Sidebar ==
    /\ pc = "sidebar"
    /\ LET c  == Multiselect(widget.city, UniqueCity(sale_df))
           ct == Multiselect(widget.customer_type, UniqueCustomerType(sale_df))
           g  == Multiselect(widget.gender, UniqueGender(sale_df))
       IN  /\ city' = c
           /\ customer_type' = ct
           /\ gender' = g
           /\ df_selection' = Query(sale_df, c, ct, g)
           /\ sale_df' = FrameAfterQuery(sale_df, c, ct, g)
    /\ passes' = passes + 1
    /\ pc' = "metrics"
    /\ UNCHANGED << xlsx, widget, warning, metrics, sales_by_hour,
                    sales_by_product_line, loads, loaded0 >>

\* main_page_demo, the key numbers: computed, then shown; on an empty frame
\* the star count raises and main_page_demo ends there.
Metrics ==
    /\ pc = "metrics"
    /\ LET df == PageFrame(sale_df, df_selection)
       IN  IF StarsRaise(AverageRating(df))
           THEN /\ pc' = "raised"
                /\ UNCHANGED metrics
           ELSE /\ metrics' = Summarize(df)
                /\ pc' = "hour_chart"
    /\ UNCHANGED << xlsx, widget, sale_df, warning, city, customer_type, gender,
                    df_selection, sales_by_hour, sales_by_product_line,
                    loads, passes, loaded0 >>

\* main_page_demo, the left chart.
HourChart ==
    /\ pc = "hour_chart"
    /\ sales_by_hour' = GroupByHour(PageFrame(sale_df, df_selection))
    /\ pc' = "product_chart"
    /\ UNCHANGED << xlsx, widget, sale_df, warning, city, customer_type, gender,
                    df_selection, metrics, sales_by_product_line,
                    loads, passes, loaded0 >>

\* main_page_demo, the right chart.
ProductChart ==
    /\ pc = "product_chart"
    /\ sales_by_product_line' \in
           SortValues(GroupByProduct(PageFrame(sale_df, df_selection)))
    /\ pc' = "done"
    /\ UNCHANGED << xlsx, widget, sale_df, warning, city, customer_type, gender,
                    df_selection, metrics, sales_by_hour, loads, passes, loaded0 >>

\* What one use of a multiselect can turn its selection into: one option
\* removed, one option added, or all removed (the clear button).
Changes(current, options) ==
    ( { current \ {v} : v \in current }
      \cup { current \cup {v} : v \in options \ current }
      \cup { {} } ) \ {current}

\* The user changes one of the sidebar's selections: the page runs again,
\* the script starts over with fresh locals and the selections kept.
Rerun ==
    /\ pc \in {"done", "raised"}
    /\ passes < MaxPasses
    /\ \/ \E c \in Changes(city, UniqueCity(sale_df)) :
            widget' = [set |-> TRUE, city |-> c,
                       customer_type |-> customer_type, gender |-> gender]
       \/ \E ct \in Changes(customer_type, UniqueCustomerType(sale_df)) :
            widget' = [set |-> TRUE, city |-> city,
                       customer_type |-> ct, gender |-> gender]
       \/ \E g \in Changes(gender, UniqueGender(sale_df)) :
            widget' = [set |-> TRUE, city |-> city,
                       customer_type |-> customer_type, gender |-> g]
    /\ pc' = "load"
    /\ sale_df' = << >>
    /\ warning' = FALSE
    /\ city' = {} /\ customer_type' = {} /\ gender' = {}
    /\ df_selection' = << >>
    /\ metrics' = NoMetrics
    /\ sales_by_hour' = << >>
    /\ sales_by_product_line' = << >>
    /\ UNCHANGED << xlsx, loads, passes, loaded0 >>

Next == Load \/ Sidebar \/ Metrics \/ HourChart \/ ProductChart \/ Rerun

Spec == Init /\ [][Next]_vars

\* ------------------------------------------------------------ properties

\* The rows of a frame.
Range(s) == { s[i] : i \in DOMAIN s }

\* The filter step of the current page run has returned.
AfterFilter == pc \in {"metrics", "raised", "hour_chart", "product_chart", "done"}

\* The row's place in a frame (order numbers are unique).
Position(df, r) == CHOOSE i \in DOMAIN df : df[i] = r

\* The condition of the filter contract, on the current selections.
Selected(r) == r.city \in city /\ r.customer_type \in customer_type /\ r.gender \in gender

RECURSIVE BucketSum(_)
BucketSum(b) == IF b = << >> THEN 0 ELSE Head(b).total + BucketSum(Tail(b))

\* C1: the filtered frame holds exactly the rows of the table whose city,
\* customer type and gender are each in the respective selection, in the
\* table's order.
FilterReturnsExactlyMatching ==
    AfterFilter =>
        /\ Range(df_selection) \subseteq Range(sale_df)
        /\ \A r \in Range(sale_df) : (r \in Range(df_selection)) <=> Selected(r)
        /\ \A i, j \in DOMAIN df_selection :
              i < j => Position(sale_df, df_selection[i]) < Position(sale_df, df_selection[j])

\* A filter pass that kept some rows and dropped a row that matched on city
\* but not on gender.
FilterWitness ==
    /\ AfterFilter
    /\ 0 < Len(df_selection) /\ Len(df_selection) < Len(sale_df)
    /\ \E r \in Range(sale_df) : r.city \in city /\ r.gender \notin gender

\* C2 (as claimed): with an empty selection set the run completes, the frame
\* is empty, the total shown is 0, the averages are absent and both charts
\* have no buckets.
EmptySelectionIsNoError ==
    (pc \in {"raised", "done"} /\ (city = {} \/ customer_type = {} \/ gender = {})) =>
        /\ pc = "done"
        /\ df_selection = << >>
        /\ metrics.total_sales = 0
        /\ metrics.average_rating = NaN
        /\ metrics.average_sale = NaN
        /\ sales_by_hour = << >>
        /\ sales_by_product_line = << >>

\* C3 (as claimed): the bucket totals of each aggregation add up to the total
\* the summary shows.
AggregatesAgreeWithTotal ==
    pc = "done" =>
        /\ BucketSum(sales_by_product_line) = metrics.total_sales * Cents
        /\ BucketSum(sales_by_hour) = metrics.total_sales * Cents

\* C3 (amended): the bucket totals of an aggregation add up to the prices of
\* the rows whose grouping key is present; the total shown is the whole part
\* of the sum over all rows; so with no key missing the whole part of the
\* bucket sum is the total shown.
AggregatesSumRowsWithKey ==
    pc = "done" =>
        LET withProduct == SelectSeq(df_selection, LAMBDA r : r.product # NA)
            withHour    == SelectSeq(df_selection, LAMBDA r : r.hour # NaN)
            all         == SumPrice(df_selection)
        IN  /\ BucketSum(sales_by_product_line) = SumPrice(withProduct)
            /\ BucketSum(sales_by_hour) = SumPrice(withHour)
            /\ metrics.total_sales * Cents <= all
            /\ all < (metrics.total_sales + 1) * Cents
            /\ withProduct = df_selection =>
                  BucketSum(sales_by_product_line) \div Cents = metrics.total_sales
            /\ withHour = df_selection =>
                  BucketSum(sales_by_hour) \div Cents = metrics.total_sales

\* A finished page over a frame with a row of no product, a row of no hour
\* and a sum that is not a whole number.
AggregatesWitness ==
    /\ pc = "done"
    /\ \E r \in Range(df_selection) : r.product = NA
    /\ \E r \in Range(df_selection) : r.hour = NaN
    /\ \E r \in Range(df_selection) : r.product # NA /\ r.hour # NaN
    /\ SumPrice(df_selection) % Cents # 0

\* The first row of a frame with the given product.
FirstRowOf(df, k) == CHOOSE i \in DOMAIN df : df[i].product = k /\ \A j \in 1..i - 1 : df[j].product # k

\* C4 (as claimed): the product buckets ascend by total, and buckets of equal
\* total come in the order their categories first occur in the filtered frame.
ProductTiesInFirstSeenOrder ==
    pc = "done" =>
        \A i, j \in DOMAIN sales_by_product_line :
            i < j =>
                /\ sales_by_product_line[i].total <= sales_by_product_line[j].total
                /\ sales_by_product_line[i].total = sales_by_product_line[j].total =>
                      FirstRowOf(df_selection, sales_by_product_line[i].key)
                          < FirstRowOf(df_selection, sales_by_product_line[j].key)

\* C4 (amended): the product buckets, one per category present with that
\* category's summed price, ascend by total; nothing is promised about
\* buckets of equal total.
ProductBucketsAscending ==
    pc = "done" =>
        /\ \A i, j \in DOMAIN sales_by_product_line :
              i < j =>
                  /\ sales_by_product_line[i].total <= sales_by_product_line[j].total
                  /\ sales_by_product_line[i].key # sales_by_product_line[j].key
        /\ { b.key : b \in Range(sales_by_product_line) }
              = { r.product : r \in Range(df_selection) } \ {NA}
        /\ \A b \in Range(sales_by_product_line) :
              b.total = SumPrice(SelectSeq(df_selection, LAMBDA r : r.product = b.key))

\* A finished page whose product buckets had to be reordered: a category
\* later in key order has the smaller total.
ProductBucketsWitness ==
    /\ pc = "done"
    /\ \E i, j \in DOMAIN sales_by_product_line :
          /\ i < j
          /\ sales_by_product_line[i].total < sales_by_product_line[j].total
          /\ StrRank(sales_by_product_line[i].key) > StrRank(sales_by_product_line[j].key)

\* C5 (as claimed): the loader runs once, before the first filter pass, and
\* never again.
LoaderRunsOnce == loads <= 1 /\ (passes >= 1 => loads = 1)

\* C6: with each selection equal to the distinct values of its column, the
\* filter returns the table as it is, rows with a missing cell included.
DefaultSelectionReturnsTable ==
    ( /\ AfterFilter
      /\ city = { r.city : r \in Range(sale_df) }
      /\ customer_type = { r.customer_type : r \in Range(sale_df) }
      /\ gender = { r.gender : r \in Range(sale_df) } )
    => df_selection = sale_df

\* A filter pass with the default selection over a table with a missing
\* city and another row.
DefaultSelectionWitness ==
    /\ AfterFilter
    /\ Len(sale_df) >= 2
    /\ \E r \in Range(sale_df) : r.city = NA
    /\ city = { r.city : r \in Range(sale_df) }
    /\ customer_type = { r.customer_type : r \in Range(sale_df) }
    /\ gender = { r.gender : r \in Range(sale_df) }
    /\ df_selection = sale_df

\* C7: once loaded, the source table stays as it was right after the load,
\* through the filter, the summary and both aggregations of every page run.
SourceTableUnchanged == pc # "load" => sale_df = loaded0

\* A second page run that finished on a proper part of the table.
SourceTableWitness ==
    /\ pc = "done"
    /\ passes >= 2
    /\ Len(df_selection) < Len(sale_df)
    /\ sale_df = loaded0

\* C8: with no file the loader warns and returns the six fallback orders,
\* and the summary over all of them is 1374, 4.2 and 229.0.
FallbackOnMissingFile ==
    ~xlsx.exists =>
        /\ pc # "load" =>
              /\ warning
              /\ [i \in DOMAIN sale_df |-> sale_df[i].order]
                    = << 1001, 1002, 1003, 1004, 1005, 1006 >>
        /\ (pc \in {"hour_chart", "product_chart", "done"} /\ df_selection = sale_df) =>
              /\ metrics.total_sales = 1374
              /\ metrics.average_rating = 42
              /\ metrics.average_sale = 22900

\* A finished page over the whole fallback table.
FallbackWitness ==
    /\ ~xlsx.exists
    /\ pc = "done"
    /\ warning
    /\ Len(sale_df) = 6
    /\ df_selection = sale_df

\* The rows the current selections pick from the table.
CurrentSubset == SelectSeq(sale_df, Selected)

\* C9: what a page run shows (the numbers, the hour buckets, the product
\* buckets) is computed from the rows its own selections pick, and those
\* selections are the ones the user last made.
ShownFromCurrentSelection ==
    /\ (widget.set /\ AfterFilter) =>
          city = widget.city /\ customer_type = widget.customer_type /\ gender = widget.gender
    /\ pc \in {"hour_chart", "product_chart", "done"} => metrics = Summarize(CurrentSubset)
    /\ pc \in {"product_chart", "done"} => sales_by_hour = GroupByHour(CurrentSubset)
    /\ pc = "done" => sales_by_product_line \in SortValues(GroupByProduct(CurrentSubset))

\* A second page run finished on a proper part of the table whose numbers
\* differ from the whole table's.
ShownWitness ==
    /\ pc = "done"
    /\ passes >= 2
    /\ Len(df_selection) < Len(sale_df)
    /\ metrics # Summarize(sale_df)
    /\ sales_by_hour # GroupByHour(sale_df)

\* C10: the hour buckets' keys are the distinct hours 0..23 of the filtered
\* frame, each once, in strictly ascending order.
HourKeysAscendingDistinct ==
    pc \in {"product_chart", "done"} =>
        /\ \A i, j \in DOMAIN sales_by_hour :
              i < j => sales_by_hour[i].key < sales_by_hour[j].key
        /\ { b.key : b \in Range(sales_by_hour) }
              = { r.hour : r \in Range(df_selection) } \cap 0..23

\* An hour chart over a frame whose rows bring their hours out of order,
\* one hour twice or missing.
HourKeysWitness ==
    /\ pc \in {"product_chart", "done"}
    /\ Len(sales_by_hour) >= 2
    /\ Len(sales_by_hour) < Len(df_selection)
    /\ \E i, j \in DOMAIN df_selection :
          i < j /\ df_selection[i].hour > df_selection[j].hour /\ df_selection[j].hour # NaN

====
